---- MODULE Spec2Model ----
(***************************************************************************)
(* Claude Code Voice: the context server (server.py) that answers the      *)
(* voice platform's webhooks, and the CLI commands (cli.py) that write the *)
(* same Config and Project documents from other processes.                 *)
(*                                                                         *)
(* The server is a single-threaded HTTPServer: one request is handled at a *)
(* time.  CLI commands run in their own process, so their file reads and   *)
(* writes fall between the steps of a handler; the sync command runs in a  *)
(* process of its own, beside the other commands.  A file written with     *)
(* open(path, "w") + json.dump is first truncated and only later complete: *)
(* in between, a reader finds a document that does not parse.              *)
(***************************************************************************)
EXTENDS Integers, Sequences, FiniteSets, TLC

VARIABLES
    config,       \* config.json: the Config document
    projects,     \* projects/<stem>.json: one Project document per stem
    transcripts,  \* transcripts/<timestamp>_<project>.md: file name -> content
    writes,       \* number of transcript writes performed so far
    now,          \* the wall clock, in seconds
    srv,          \* the server process: position inside a handler, and its locals
    req,          \* the request the server handled last (or is handling)
    resp,         \* the response to req
    cli,          \* the CLI process: position inside a command, and its locals
    resolvedFor,  \* history: caller -> the project the last assistant-request of
                  \* that caller resolved to, and whether the handler recorded it in
                  \* the Config; forgotten when a CLI command writes the Config
    pending,      \* pending_calls.json: the records of the outbound calls placed
    syn           \* the process of the sync command: its position and its locals

vars == <<config, projects, transcripts, writes, now, srv, req, resp, cli, resolvedFor,
         pending, syn>>

-----------------------------------------------------------------------------
(* Bounds of the model *)

MaxClock == 2      \* the clock runs 0..MaxClock
MaxWrites == 2     \* transcript writes per run
MaxBatch == 2      \* invocations in one tool-calls request

-----------------------------------------------------------------------------
(* Values *)

None == "<None>"                     \* Python's None
Phones == {"+1", "+2"}               \* numbers that can be set up
Callers == Phones \cup {""}          \* customer.number of a call; "" when absent
ProjNames == {"App", "app"}          \* project names that get registered
LookupNames == ProjNames \cup {"APP", "nope", ""}
UserNames == {"Ann"}

\* str.lower()
Lower(s) == CASE s = "App" -> "app"
              [] s = "APP" -> "app"
              [] OTHER -> s

\* Python truthiness of an optional string: None and "" are falsy
Truthy(s) == s # None /\ s # ""

Min(a, b) == IF a <= b THEN a ELSE b

\* All orders in which a directory listing (glob) can enumerate a set of names
Perms(S) == {p \in [1..Cardinality(S) -> S] : \A i, j \in 1..Cardinality(S) : p[i] = p[j] => i = j}

-----------------------------------------------------------------------------
(* Files on disk *)

AbsentFile == [st |-> "absent"]      \* the file does not exist
PartialFile == [st |-> "partial"]    \* the file exists and does not parse as JSON
Exists(f) == f.st # "absent"
Parses(f) == f.st = "doc"

-----------------------------------------------------------------------------
(* Paths.  A path is the sequence of its components; str(path) is the      *)
(* sequence of its characters, which is what str.startswith compares.      *)

CharsOf(c) ==
    CASE c = "home"      -> <<"h", "o", "m", "e">>
      [] c = "u"         -> <<"u">>
      [] c = "proj"      -> <<"p", "r", "o", "j">>
      [] c = "proj-evil" -> <<"p", "r", "o", "j", "-", "e", "v", "i", "l">>
      [] c = "etc"       -> <<"e", "t", "c">>
      [] c = "passwd"    -> <<"p", "a", "s", "s", "w", "d">>
      [] c = "main.py"   -> <<"m", "a", "i", "n", ".", "p", "y">>
      [] c = "secret.md" -> <<"s", "e", "c", "r", "e", "t", ".", "m", "d">>
      [] c = "docs"      -> <<"d", "o", "c", "s">>
      [] c = "big.md"    -> <<"b", "i", "g", ".", "m", "d">>
      [] c = "nofile"    -> <<"n", "o", "f", "i", "l", "e">>
      [] OTHER           -> <<c>>

\* str(PosixPath): "/" for the root, else "/" + "/".join(parts)
RECURSIVE JoinParts(_)
JoinParts(parts) ==
    IF parts = <<>> THEN <<>>
    ELSE <<"/">> \o CharsOf(Head(parts)) \o JoinParts(Tail(parts))

PathStr(parts) == IF parts = <<>> THEN <<"/">> ELSE JoinParts(parts)

\* str.startswith
StartsWith(s, prefix) ==
    Len(prefix) <= Len(s) /\ SubSeq(s, 1, Len(prefix)) = prefix

\* Path.resolve() of an absolute path on a filesystem without symbolic links:
\* "." is dropped, ".." removes the component before it (the root is its own parent)
RECURSIVE ResolveFrom(_, _)
ResolveFrom(acc, rest) ==
    IF rest = <<>> THEN acc
    ELSE LET c == Head(rest) IN
         IF c = "." THEN ResolveFrom(acc, Tail(rest))
         ELSE IF c = ".." THEN
              ResolveFrom(IF acc = <<>> THEN <<>> ELSE SubSeq(acc, 1, Len(acc) - 1), Tail(rest))
         ELSE ResolveFrom(Append(acc, c), Tail(rest))

Resolve(parts) == ResolveFrom(<<>>, parts)

\* project_path / file_path: an absolute right operand replaces the left one
JoinPath(base, fp) == IF fp.abs THEN fp.parts ELSE base \o fp.parts

\* q is p itself or below p, component by component
IsWithin(q, p) == Len(p) <= Len(q) /\ SubSeq(q, 1, Len(p)) = p

-----------------------------------------------------------------------------
(* The developer's filesystem, as the tools find it.  It is not written by  *)
(* the program.  A file is the sequence of its lines.                       *)

ProjRoot == <<"home", "u", "proj">>
EvilRoot == <<"home", "u", "proj-evil">>

FsDirs == {<<>>, <<"home">>, <<"home", "u">>, ProjRoot, EvilRoot, <<"etc">>,
           ProjRoot \o <<"docs">>}

Line(text, len) == [text |-> text, len |-> len]

FsFiles ==
    (ProjRoot \o <<"main.py">>)         :> <<Line("def todo():", 11), Line("return 1", 8)>>
 @@ (ProjRoot \o <<"docs", "big.md">>)  :> <<Line("# Notes", 1500), Line("todo later", 1500)>>
 @@ (EvilRoot \o <<"secret.md">>)       :> <<Line("password", 8)>>
 @@ (<<"etc", "passwd">>)               :> <<Line("root:x:0:0", 10)>>

FsExists(p) == p \in FsDirs \/ p \in DOMAIN FsFiles
FsIsFile(p) == p \in DOMAIN FsFiles

\* len(text) of a file: every line and its newline
RECURSIVE CharCount(_)
CharCount(lines) ==
    IF lines = <<>> THEN 0 ELSE Head(lines).len + 1 + CharCount(Tail(lines))

\* number of lines that begin within the first k characters
RECURSIVE LinesWithin(_, _)
LinesWithin(lines, k) ==
    IF lines = <<>> \/ k <= 0 THEN 0
    ELSE 1 + LinesWithin(Tail(lines), k - Head(lines).len - 1)

\* The file_path arguments the assistant may send
FilePaths ==
    { [abs |-> FALSE, parts |-> <<"main.py">>],
      [abs |-> FALSE, parts |-> <<"docs", "big.md">>],
      [abs |-> FALSE, parts |-> <<"docs">>],
      [abs |-> FALSE, parts |-> <<"nofile">>],
      [abs |-> FALSE, parts |-> <<>>],
      [abs |-> FALSE, parts |-> <<"..", "..", "..", "etc", "passwd">>],
      [abs |-> FALSE, parts |-> <<"..", "proj-evil", "secret.md">>],
      [abs |-> TRUE,  parts |-> <<"etc", "passwd">>] }

-----------------------------------------------------------------------------
(* The Snapshot builder (cli.py).  Texts are kept by their length, lists by *)
(* their number of entries.  A project directory is described by what the   *)
(* builder looks at in it.                                                  *)

DescLimit == 200        \* [:200] of the README description
TodoLimit == 10         \* [:10] of the TODO.md entries
FindLimit == 20         \* [:20] of the files found
ReadmeWindow == 1000    \* read_text()[:1000]

\* What cmd_register finds in the registered directory
DirFactsOf(cwd) ==
    [ readme     |-> 40,          \* length of the README's first paragraph; -1: no README
      pkg        |-> "absent",    \* package.json: "absent", "bad" or "ok"
      pkgDesc    |-> 0,           \* length of its description
      marker     |-> "Python",    \* type of the first build file found, or "Unknown"
      git        |-> TRUE,        \* git status / git log succeed
      modified   |-> 1,
      untracked  |-> 0,
      commits    |-> 3,           \* lines printed by git log --oneline -5
      found      |-> 2,           \* lines printed by find
      todoFile   |-> "none",      \* first todo file found: "none", "json" or "md"
      todoIsList |-> TRUE,
      todoCount  |-> 0 ]

gather_project_context(d) ==
    LET fromReadme == IF d.readme >= 0 THEN Min(Min(d.readme, ReadmeWindow), DescLimit) ELSE 0
        description == IF d.pkg = "ok" /\ fromReadme = 0 THEN d.pkgDesc ELSE fromReadme
        project_type == IF d.pkg # "absent" THEN "Node.js" ELSE d.marker
        todos == CASE d.todoFile = "json" -> (IF d.todoIsList THEN d.todoCount ELSE 0)
                   [] d.todoFile = "md"   -> Min(d.todoCount, TodoLimit)
                   [] OTHER               -> 0
    IN  [ description    |-> description,
          project_type   |-> project_type,
          git_summary    |-> IF d.git THEN <<d.modified, d.untracked>> ELSE <<>>,
          todos          |-> todos,
          recent_files   |-> Min(d.found, FindLimit),
          \* "".split("\n") is [""]: an empty log still leaves one entry
          recent_commits |-> IF d.git THEN (IF d.commits = 0 THEN 1 ELSE d.commits) ELSE 0 ]

-----------------------------------------------------------------------------
(* The Project Store as the server reads it (server.py)                     *)

ProjectDoc(name, path, stamp, context) ==
    [st |-> "doc", name |-> name, path |-> path, last_context_update |-> stamp,
     context |-> context]

\* PROJECTS_DIR / f"{name}.json"
ProjectFile(name) == IF name \in DOMAIN projects THEN projects[name] ELSE AbsentFile

ExistingStems == {n \in DOMAIN projects : Exists(projects[n])}

\* The orders in which PROJECTS_DIR.glob("*.json") can list the documents
GlobOrders == Perms(ExistingStems)

\* Outcomes of a call: it raised, it returned None, or it returned a value
Raised == [tag |-> "raise"]
NoneResult == [tag |-> "none"]
Value(v) == [tag |-> "ok", value |-> v]
Error(msg) == [tag |-> "ok", value |-> [error |-> msg]]
IsError(r) == r.tag = "ok" /\ "error" \in DOMAIN r.value

\* json.loads(f.read_text()) of a document that exists
ReadJson(f) == IF Parses(f) THEN Value(f) ELSE Raised

\* first document of the listing whose stem matches ignoring case
RECURSIVE FirstCaseMatch(_, _)
FirstCaseMatch(name, order) ==
    IF order = <<>> THEN NoneResult
    ELSE IF Lower(Head(order)) = Lower(name) THEN ReadJson(projects[Head(order)])
    ELSE FirstCaseMatch(name, Tail(order))

\* variant: only the document of that very name is looked for
load_project_exact(name, order) ==
    IF Exists(ProjectFile(name)) THEN ReadJson(ProjectFile(name)) ELSE NoneResult

load_project(name, order) ==
    IF Exists(ProjectFile(name)) THEN ReadJson(ProjectFile(name))
    ELSE FirstCaseMatch(name, order)

\* the documents of the listing that parse, in listing order
RECURSIVE ParsedDocs(_)
ParsedDocs(order) ==
    IF order = <<>> THEN <<>>
    ELSE (IF Parses(projects[Head(order)]) THEN <<projects[Head(order)]>> ELSE <<>>)
         \o ParsedDocs(Tail(order))

list_all_projects(order) ==
    LET docs == ParsedDocs(order) IN
    Value([i \in 1..Len(docs) |->
             [name |-> docs[i].name, description |-> docs[i].context.description,
              path |-> docs[i].path]])

ContextFilesLimit == 10   \* recent_files[:10]

get_project_context(project_name, order) ==
    LET p == load_project(project_name, order) IN
    IF p.tag = "raise" THEN Raised
    ELSE IF p.tag = "none" THEN Error(<<"Project not found", project_name>>)
    ELSE LET ctx == p.value.context IN
         Value([ name         |-> p.value.name,
                 path         |-> p.value.path,
                 description  |-> ctx.description,
                 project_type |-> ctx.project_type,
                 git_status   |-> ctx.git_summary,
                 todos        |-> ctx.todos,
                 recent_files |-> Min(ctx.recent_files, ContextFilesLimit) ])

ReadLimit == 2000   \* len(content) > 2000: content[:2000] + marker

read_file(project_name, file_path, order) ==
    LET p == load_project(project_name, order) IN
    IF p.tag = "raise" THEN Raised
    ELSE IF p.tag = "none" THEN Error(<<"Project not found", project_name>>)
    ELSE LET project_path == Resolve(p.value.path)
             full_path == Resolve(JoinPath(p.value.path, file_path))
         IN  IF ~StartsWith(PathStr(full_path), PathStr(project_path))
             THEN Error(<<"Access denied: file outside project directory">>)
             ELSE IF ~FsExists(full_path) THEN Error(<<"File not found", file_path>>)
             ELSE IF ~FsIsFile(full_path) THEN Error(<<"Not a file", file_path>>)
             ELSE LET lines == FsFiles[full_path]
                      cut == CharCount(lines) > ReadLimit
                  IN  Value([ file    |-> file_path,
                              content |-> [of |-> full_path,
                                           chars |-> Min(CharCount(lines), ReadLimit),
                                           truncated |-> cut],
                              lines   |-> IF cut THEN LinesWithin(lines, ReadLimit) + 1
                                          ELSE Len(lines) ])

\* The queries the assistant may send, and the lines in which grep -i finds each.
\* The empty pattern matches every line.
Queries == {"", "todo", "zzz"}
GrepMatches(query, text) ==
    \/ query = ""
    \/ query = "todo" /\ text \in {"def todo():", "todo later"}

\* --include: the extensions grep searches
Searchable(path) ==
    path # <<>> /\ path[Len(path)] \in {"main.py", "big.md", "secret.md"}

\* the files grep -r visits under a directory, in the order it visits them
RECURSIVE SetToSeq(_)
SetToSeq(S) == IF S = {} THEN <<>>
               ELSE LET x == CHOOSE y \in S : \A z \in S : Len(y) <= Len(z)
                    IN  <<x>> \o SetToSeq(S \ {x})

FilesUnder(dir) == SetToSeq({f \in DOMAIN FsFiles : IsWithin(f, dir) /\ Searchable(f)})

\* the matching lines of one file, as "path:lineno:text"
RECURSIVE GrepFile(_, _, _, _)
GrepFile(query, path, lines, n) ==
    IF n > Len(lines) THEN <<>>
    ELSE (IF GrepMatches(query, lines[n].text)
          THEN <<[path |-> path, lineno |-> n, text |-> lines[n].text]>> ELSE <<>>)
         \o GrepFile(query, path, lines, n + 1)

RECURSIVE GrepFiles(_, _)
GrepFiles(query, files) ==
    IF files = <<>> THEN <<>>
    ELSE GrepFile(query, Head(files), FsFiles[Head(files)], 1) \o GrepFiles(query, Tail(files))

MatchLimit == 10   \* split("\n")[:10]

\* m.replace(project_path + "/", ""): the match's path relative to the project
StripRoot(m, root) ==
    [m EXCEPT !.path = IF IsWithin(m.path, root)
                       THEN SubSeq(m.path, Len(root) + 1, Len(m.path)) ELSE m.path]

\* timedOut: grep did not finish within the 10 seconds subprocess.run allows
search_code(project_name, query, order, timedOut) ==
    LET p == load_project(project_name, order) IN
    IF p.tag = "raise" THEN Raised
    ELSE IF p.tag = "none" THEN Error(<<"Project not found", project_name>>)
    ELSE IF ~FsExists(p.value.path) THEN Error(<<"Project path not found", p.value.path>>)
    ELSE IF timedOut THEN Error(<<"Search failed">>)
    ELSE LET out == GrepFiles(query, FilesUnder(p.value.path))
             matches == SubSeq(out, 1, Min(Len(out), MatchLimit))
         IN  IF matches = <<>>
             THEN Value([query |-> query, matches |-> <<>>, message |-> "No matches found"])
             ELSE Value([query |-> query,
                         matches |-> [i \in 1..Len(matches) |->
                                        StripRoot(matches[i], p.value.path)]])

\* list.sort(key, reverse=True): stable, greatest key first
RECURSIVE InsertDesc(_, _)
InsertDesc(x, s) ==
    IF s = <<>> THEN <<x>>
    ELSE IF Head(s).last_context_update >= x.last_context_update
         THEN <<Head(s)>> \o InsertDesc(x, Tail(s))
         ELSE <<x>> \o s

RECURSIVE SortDesc(_)
SortDesc(s) ==
    IF s = <<>> THEN <<>>
    ELSE InsertDesc(s[Len(s)], SortDesc(SubSeq(s, 1, Len(s) - 1)))

\* variant: the first document that parses, in the order glob yields them
get_first_project(order) ==
    LET found == ParsedDocs(order) IN
    IF found # <<>> THEN Value(found[1]) ELSE NoneResult

\* variant: the stalest project instead of the freshest
get_least_recent_project(order) ==
    LET sorted == SortDesc(ParsedDocs(order)) IN
    IF sorted # <<>> THEN Value(sorted[Len(sorted)]) ELSE NoneResult

get_most_recent_project(order) ==
    LET sorted == SortDesc(ParsedDocs(order)) IN
    IF sorted # <<>> THEN Value(sorted[1]) ELSE NoneResult

-----------------------------------------------------------------------------
(* The Config document (server.py)                                          *)

\* a document that parses; a missing key reads as None / {} through dict.get
ConfigDoc(user_phone, users, tool_ids) ==
    [st |-> "doc", user_phone |-> user_phone, users |-> users, tool_ids |-> tool_ids]

EmptyConfig == ConfigDoc(None, <<>>, <<>>)      \* {}

Profile(name, last_project) == [name |-> name, last_project |-> last_project]

\* variant: the document on disk is not read
load_config_unread == Value(EmptyConfig)

\* json.loads(CONFIG_FILE.read_text()), or {} when there is no file
load_config ==
    IF ~Exists(config) THEN Value(EmptyConfig)
    ELSE IF Parses(config) THEN Value(config)
    ELSE Raised

-----------------------------------------------------------------------------
(* Responses.  status 0: the handler raised, so the connection is closed    *)
(* without any response; "pending": the handler has not answered yet.       *)

Response(status, body) == [status |-> status, body |-> body]
Dropped == Response(0, [kind |-> "dropped"])
Pending == Response(0, [kind |-> "pending"])
NoRequest == [route |-> "none"]

IdleServer == [pc |-> "idle"]

PromptCommits == 5    \* recent_commits[:5]
PromptTodos == 10     \* todos[:10]
PromptFiles == 10     \* recent_files[:10]

build_system_prompt(project, topic) ==
    [ project        |-> project.name,
      project_type   |-> project.context.project_type,
      description    |-> project.context.description,
      path           |-> project.path,
      git_summary    |-> project.context.git_summary,
      recent_commits |-> Min(project.context.recent_commits, PromptCommits),
      todos          |-> Min(project.context.todos, PromptTodos),
      recent_files   |-> Min(project.context.recent_files, PromptFiles),
      topic          |-> topic ]

\* the three assistant variants; messages and toolIds are <<>> when the key is absent
Assistant(firstMessage, messages, toolIds) ==
    [kind |-> "assistant", firstMessage |-> firstMessage, messages |-> messages,
     toolIds |-> toolIds]

UnknownCallerAssistant == Assistant(<<"I don't recognize this number">>, <<>>, <<>>)
NoProjectAssistant(name) == Assistant(<<"no projects registered", name>>, <<>>, <<>>)
ProjectAssistant(name, project, tool_ids) ==
    Assistant(<<"loaded up", name, project.name>>,
              <<build_system_prompt(project, "inbound call")>>, tool_ids)

-----------------------------------------------------------------------------
(* handle_assistant_request: the Caller Resolver                            *)

NoUser == [name |-> None, last_project |-> None, known |-> FALSE]
KnownUser(profile) ==
    [name |-> profile.name, last_project |-> profile.last_project, known |-> TRUE]

\* variant: every number other than a users key is taken for the owner
ResolveUserAnyOwner(cfg, caller_phone) ==
    IF caller_phone \in DOMAIN cfg.users THEN KnownUser(cfg.users[caller_phone])
    ELSE KnownUser(Profile("there", None))

\* users.get(caller_phone), then the fallback to the configured user_phone
ResolveUser(cfg, caller_phone) ==
    IF caller_phone \in DOMAIN cfg.users THEN KnownUser(cfg.users[caller_phone])
    ELSE IF cfg.user_phone = caller_phone THEN KnownUser(Profile("there", None))
    ELSE NoUser

\* variant: last_project is ignored
ResolveProjectByRecency(user, order) == get_most_recent_project(order)

\* load_project(last_project) if it is set, else / then get_most_recent_project()
ResolveProject(user, order) ==
    LET named == IF Truthy(user.last_project) THEN load_project(user.last_project, order)
                 ELSE NoneResult
    IN  IF named.tag = "none" THEN get_most_recent_project(order) ELSE named

\* variant: last_project is set in the document found on disk at save time
WithLastProjectMerged(cfg, caller_phone, project) ==
    IF Parses(config) /\ caller_phone \in DOMAIN config.users
    THEN [config EXCEPT !.users[caller_phone].last_project = project.name]
    ELSE cfg

\* variant: the Config is saved as it was loaded
WithLastProjectUnset(cfg, caller_phone, project) == cfg

\* the Config the handler saves: last_project set only for a number already in users
WithLastProject(cfg, caller_phone, project) ==
    IF caller_phone # "" /\ caller_phone \in DOMAIN cfg.users
    THEN [cfg EXCEPT !.users[caller_phone].last_project = project.name]
    ELSE cfg

WritesConfig(cfg, caller_phone) == caller_phone # "" /\ caller_phone \in DOMAIN cfg.users

AssistantRequest(caller_phone) ==
    [route |-> "assistant-request", caller |-> caller_phone]

\* variant: a threading server, which takes a request while another is handled
PostAssistantRequestThreaded(caller_phone) ==
    /\ req' = AssistantRequest(caller_phone)
    /\ \E order \in GlobOrders :
         LET cfg == load_config IN
         IF cfg.tag = "raise" THEN srv' = IdleServer /\ resp' = Dropped
         ELSE LET user == ResolveUser(cfg.value, caller_phone) IN
              IF ~user.known
              THEN srv' = IdleServer /\ resp' = Response(200, UnknownCallerAssistant)
              ELSE LET project == ResolveProject(user, order) IN
                   IF project.tag = "raise" THEN srv' = IdleServer /\ resp' = Dropped
                   ELSE IF project.tag = "none"
                   THEN srv' = IdleServer /\ resp' = Response(200, NoProjectAssistant(user.name))
                   ELSE /\ srv' = [pc |-> "ar_save", caller |-> caller_phone,
                                   cfg |-> cfg.value, user |-> user, project |-> project.value]
                        /\ resp' = Pending
    /\ UNCHANGED <<config, projects, transcripts, writes, now, cli, resolvedFor, pending, syn>>

\* do_POST -> handle_assistant_request, up to the choice of the project.  The
\* server is an HTTPServer: a request is taken only when none is being handled
PostAssistantRequest(caller_phone) ==
    /\ srv.pc = "idle"
    /\ req' = AssistantRequest(caller_phone)
    /\ \E order \in GlobOrders :
         LET cfg == load_config IN
         IF cfg.tag = "raise" THEN srv' = IdleServer /\ resp' = Dropped
         ELSE LET user == ResolveUser(cfg.value, caller_phone) IN
              IF ~user.known
              THEN srv' = IdleServer /\ resp' = Response(200, UnknownCallerAssistant)
              ELSE LET project == ResolveProject(user, order) IN
                   IF project.tag = "raise" THEN srv' = IdleServer /\ resp' = Dropped
                   ELSE IF project.tag = "none"
                   THEN srv' = IdleServer /\ resp' = Response(200, NoProjectAssistant(user.name))
                   ELSE /\ srv' = [pc |-> "ar_save", caller |-> caller_phone,
                                   cfg |-> cfg.value, user |-> user, project |-> project.value]
                        /\ resp' = Pending
    /\ UNCHANGED <<config, projects, transcripts, writes, now, cli, resolvedFor, pending, syn>>

\* handle_assistant_request from save_config on: the Config is written whole
\* from the copy loaded at the start, and the assistant is returned
AssistantRequestSave ==
    /\ srv.pc = "ar_save"
    /\ config' = IF WritesConfig(srv.cfg, srv.caller)
                 THEN WithLastProject(srv.cfg, srv.caller, srv.project)
                 ELSE config
    /\ resp' = Response(200, ProjectAssistant(srv.user.name, srv.project, srv.cfg.tool_ids))
    /\ resolvedFor' = [resolvedFor EXCEPT ![srv.caller] =
                          [project |-> srv.project.name,
                           recorded |-> WritesConfig(srv.cfg, srv.caller)]]
    /\ srv' = IdleServer
    /\ UNCHANGED <<projects, transcripts, writes, now, req, cli, pending, syn>>

-----------------------------------------------------------------------------
(* handle_end_of_call_report: the Call-Completion Persister                 *)

Transcripts == {"", "hello"}                 \* message.transcript; "" when absent

EndOfCallReport(call_id, call_type, meta_project, caller_phone, transcript) ==
    [route |-> "end-of-call-report", call_id |-> call_id, call_type |-> call_type,
     meta_project |-> meta_project, caller |-> caller_phone, transcript |-> transcript]

\* variant: the caller's last_project is not consulted
TranscriptProjectByRecency(r, order) ==
    IF Truthy(r.meta_project) THEN Value(r.meta_project)
    ELSE IF r.call_type = "inboundPhoneCall" /\ r.caller # ""
    THEN LET recent == get_most_recent_project(order) IN
         IF recent.tag = "ok" /\ Truthy(recent.value.name)
         THEN Value(recent.value.name) ELSE Value("unknown")
    ELSE Value("unknown")

\* The project name the transcript is filed under; Raised when load_config raises
TranscriptProject(r, order) ==
    IF Truthy(r.meta_project) THEN Value(r.meta_project)
    ELSE IF r.call_type = "inboundPhoneCall" /\ r.caller # ""
    THEN LET cfg == load_config IN
         IF cfg.tag = "raise" THEN Raised
         ELSE IF r.caller \in DOMAIN cfg.value.users
                 /\ Truthy(cfg.value.users[r.caller].last_project)
         THEN Value(cfg.value.users[r.caller].last_project)
         ELSE LET recent == get_most_recent_project(order) IN
              IF recent.tag = "ok" /\ Truthy(recent.value.name)
              THEN Value(recent.value.name) ELSE Value("unknown")
    ELSE Value("unknown")

\* f"{timestamp}_{project_name}.md"
TranscriptFile(timestamp, project_name) == <<timestamp, project_name>>

TranscriptContent(r, project_name) ==
    [ project    |-> project_name,
      call_type  |-> IF r.call_type = "inboundPhoneCall" THEN "Inbound" ELSE "Outbound",
      call_id    |-> r.call_id,
      transcript |-> r.transcript ]

\* Path.write_text: creates the file or replaces its content
WriteFile(dir, name, content) ==
    [f \in DOMAIN dir \cup {name} |-> IF f = name THEN content ELSE dir[f]]

\* variant: the handler also strikes the ended call off pending_calls.json
PostEndOfCallReportConsuming(r) ==
    /\ srv.pc = "idle"
    /\ req' = r
    /\ srv' = srv
    /\ \E order \in GlobOrders :
         LET name == TranscriptProject(r, order) IN
         IF name.tag = "raise"
         THEN resp' = Dropped /\ UNCHANGED <<transcripts, writes>>
         ELSE IF r.transcript = ""
         THEN /\ resp' = Response(200, [kind |-> "status", status |-> "ok",
                                        message |-> "no transcript"])
              /\ UNCHANGED <<transcripts, writes>>
         ELSE /\ writes < MaxWrites
              /\ transcripts' = WriteFile(transcripts, TranscriptFile(now, name.value),
                                          TranscriptContent(r, name.value))
              /\ writes' = writes + 1
              /\ resp' = Response(200, [kind |-> "status", status |-> "ok",
                                        transcript_path |-> TranscriptFile(now, name.value)])
    /\ pending' = SelectSeq(pending, LAMBDA call : call.call_id # r.call_id)
    /\ UNCHANGED <<config, projects, now, cli, resolvedFor, syn>>

\* do_POST -> handle_end_of_call_report: the name is resolved, then the file written
PostEndOfCallReport(r) ==
    /\ srv.pc = "idle"
    /\ req' = r
    /\ srv' = srv
    /\ \E order \in GlobOrders :
         LET name == TranscriptProject(r, order) IN
         IF name.tag = "raise"
         THEN resp' = Dropped /\ UNCHANGED <<transcripts, writes>>
         ELSE IF r.transcript = ""
         THEN /\ resp' = Response(200, [kind |-> "status", status |-> "ok",
                                        message |-> "no transcript"])
              /\ UNCHANGED <<transcripts, writes>>
         ELSE /\ writes < MaxWrites
              /\ transcripts' = WriteFile(transcripts, TranscriptFile(now, name.value),
                                          TranscriptContent(r, name.value))
              /\ writes' = writes + 1
              /\ resp' = Response(200, [kind |-> "status", status |-> "ok",
                                        transcript_path |-> TranscriptFile(now, name.value)])
    /\ UNCHANGED <<config, projects, now, cli, resolvedFor, pending, syn>>

-----------------------------------------------------------------------------
(* tool-calls: the Tool Executor behind do_POST                             *)

\* function.arguments as the platform sends it: a JSON object, a string holding
\* JSON text, or any other JSON value (a list, a number, null)
ObjectArgs(obj) == [form |-> "object", obj |-> obj]
StringArgs(valid, value) == [form |-> "string", valid |-> valid, value |-> value]
OtherArgs == [form |-> "other"]

\* isinstance(args, str): json.loads(args), {} when that raises
ParseArguments(args) ==
    IF args.form = "string"
    THEN (IF args.valid THEN args.value ELSE ObjectArgs(<<>>))
    ELSE args

\* args.get(key, default): raises AttributeError unless args is a dict
ArgGet(args, key, default) ==
    IF args.form # "object" THEN Raised
    ELSE IF key \in DOMAIN args.obj THEN Value(args.obj[key]) ELSE Value(default)

EmptyPath == [abs |-> FALSE, parts |-> <<>>]     \* the file_path ""

ToolNames == {"list_projects", "get_project_context", "read_file", "search_code", "bogus"}

ToolCall(id, name, args) == [id |-> id, name |-> name, args |-> args]

\* one iteration of the loop over toolCalls: the result, or Raised
ExecuteTool(call, order, timedOut) ==
    LET args == ParseArguments(call.args)
        project_name == ArgGet(args, "project_name", "")
    IN  CASE call.name = "list_projects" -> list_all_projects(order)
          [] call.name = "get_project_context" ->
                IF project_name.tag = "raise" THEN Raised
                ELSE get_project_context(project_name.value, order)
          [] call.name = "read_file" ->
                IF project_name.tag = "raise" THEN Raised
                ELSE read_file(project_name.value,
                               ArgGet(args, "file_path", EmptyPath).value, order)
          [] call.name = "search_code" ->
                IF project_name.tag = "raise" THEN Raised
                ELSE search_code(project_name.value,
                                 ArgGet(args, "query", "").value, order, timedOut)
          [] OTHER -> Error(<<"Unknown tool", call.name>>)

\* json.dumps(result)
JsonDumps(v) == [json |-> v]

\* the loop: the results so far, or Raised as soon as one iteration raises
RECURSIVE RunToolCalls(_, _, _)
RunToolCalls(calls, order, timedOut) ==
    IF calls = <<>> THEN Value(<<>>)
    ELSE LET first == ExecuteTool(Head(calls), order, timedOut) IN
         IF first.tag = "raise" THEN Raised
         ELSE LET rest == RunToolCalls(Tail(calls), order, timedOut) IN
              IF rest.tag = "raise" THEN Raised
              ELSE Value(<<[toolCallId |-> Head(calls).id,
                            result |-> JsonDumps(first.value)]>> \o rest.value)

ToolCallsRequest(calls) == [route |-> "tool-calls", toolCalls |-> calls]

\* variant: the handler stamps the documents it has read
PostToolCallsStamping(calls, timedOut) ==
    /\ srv.pc = "idle"
    /\ req' = ToolCallsRequest(calls)
    /\ srv' = srv
    /\ \E order \in GlobOrders :
         LET results == RunToolCalls(calls, order, timedOut) IN
         resp' = IF results.tag = "raise" THEN Dropped
                 ELSE Response(200, [kind |-> "results", results |-> results.value])
    /\ projects' = [n \in DOMAIN projects |->
                      IF Parses(projects[n])
                      THEN [projects[n] EXCEPT !.last_context_update = now + 1]
                      ELSE projects[n]]
    /\ UNCHANGED <<config, transcripts, writes, now, cli, resolvedFor, pending, syn>>

\* do_POST -> the loop over toolCalls; nothing on disk is written
PostToolCalls(calls, timedOut) ==
    /\ srv.pc = "idle"
    /\ req' = ToolCallsRequest(calls)
    /\ srv' = srv
    /\ \E order \in GlobOrders :
         LET results == RunToolCalls(calls, order, timedOut) IN
         resp' = IF results.tag = "raise" THEN Dropped
                 ELSE Response(200, [kind |-> "results", results |-> results.value])
    /\ UNCHANGED <<config, projects, transcripts, writes, now, cli, resolvedFor, pending, syn>>

-----------------------------------------------------------------------------
(* do_POST: the request body, and the events no handler is routed for       *)

\* "bytes": not valid UTF-8; "text": text that is not JSON;
\* "json": a JSON value that is not an object; "object": a JSON object
BodyKinds == {"bytes", "text", "json", "object"}
OtherTypes == {"status-update", None}      \* message.type of an unrouted event

OtherRequest(body, type) == [route |-> "other", body |-> body, type |-> type]

PostOther(body, type) ==
    /\ srv.pc = "idle"
    /\ req' = OtherRequest(body, type)
    /\ srv' = srv
    /\ resp' = CASE body = "bytes" -> Dropped          \* .decode() raises, outside the try
                 [] body = "text"  -> Response(400, [kind |-> "error", error |-> "Invalid JSON"])
                 [] body = "json"  -> Dropped          \* data.get raises AttributeError
                 [] OTHER          -> Response(200, [kind |-> "status", status |-> "ok"])
    /\ UNCHANGED <<config, projects, transcripts, writes, now, cli, resolvedFor, pending, syn>>

-----------------------------------------------------------------------------
(* The CLI process (cli.py).  save_config and the project write open the    *)
(* file with "w", which truncates it, and then dump the JSON text into it.  *)

IdleCli == [pc |-> "idle"]

NoResolutions == [c \in Callers |-> [project |-> None, recorded |-> FALSE]]

\* cmd_register in the directory d, up to open(project_file, "w"); the
\* timestamps are taken first
RegisterOpen(project_name, d) ==
    /\ cli.pc = "idle"
    /\ load_config.tag # "raise"          \* json.load raises: the command ends there
    /\ now < MaxClock
    /\ now' = now + 1
    /\ projects' = [projects EXCEPT ![project_name] = PartialFile]
    /\ cli' = [pc |-> "register_dump", stem |-> project_name,
               doc |-> ProjectDoc(project_name, ProjRoot, now + 1,
                                  gather_project_context(d))]
    /\ UNCHANGED <<config, transcripts, writes, srv, req, resp, resolvedFor, pending, syn>>

\* cmd_register: json.dump(project_data, f) and close
RegisterDump ==
    /\ cli.pc = "register_dump"
    /\ projects' = [projects EXCEPT ![cli.stem] = cli.doc]
    /\ cli' = IdleCli
    /\ UNCHANGED <<config, transcripts, writes, now, srv, req, resp, resolvedFor, pending, syn>>

\* cmd_setup, up to the first save_config: the profile of the phone is replaced
SetupConfig(cfg, phone, user_name) ==
    [cfg EXCEPT !.user_phone = phone,
                !.users = [p \in DOMAIN cfg.users \cup {phone} |->
                             IF p = phone THEN Profile(user_name, None) ELSE cfg.users[p]]]

SetupLoad(phone, user_name) ==
    /\ cli.pc = "idle"
    /\ load_config.tag # "raise"
    /\ cli' = [pc |-> "save_open", cfg |-> SetupConfig(load_config.value, phone, user_name),
               then |-> "setup_verify"]
    /\ UNCHANGED <<config, projects, transcripts, writes, now, srv, req, resp, resolvedFor, pending, syn>>

\* save_config: open(CONFIG_FILE, "w")
CliSaveOpen ==
    /\ cli.pc = "save_open"
    /\ config' = PartialFile
    /\ cli' = [cli EXCEPT !.pc = "save_dump"]
    /\ resolvedFor' = NoResolutions
    /\ UNCHANGED <<projects, transcripts, writes, now, srv, req, resp, pending, syn>>

\* save_config: json.dump(config, f) and close
CliSaveDump ==
    /\ cli.pc = "save_dump"
    /\ config' = cli.cfg
    /\ cli' = IF cli.then = "idle" THEN IdleCli ELSE [pc |-> cli.then, cfg |-> cli.cfg]
    /\ resolvedFor' = NoResolutions
    /\ UNCHANGED <<projects, transcripts, writes, now, srv, req, resp, pending, syn>>

\* cmd_setup: GET /phone-number.  The request fails (vapi_request exits), or no
\* number is offered, or one is chosen and the Config is saved again
SetupVerify(outcome) ==
    /\ cli.pc = "setup_verify"
    /\ cli' = CASE outcome = "exit"   -> IdleCli
                [] outcome = "number" -> [pc |-> "save_open", cfg |-> cli.cfg,
                                          then |-> "setup_tools"]
                [] OTHER              -> [pc |-> "setup_tools", cfg |-> cli.cfg]
    /\ UNCHANGED <<config, projects, transcripts, writes, now, srv, req, resp, resolvedFor, pending, syn>>

SetupToolIds == <<"tool-1", "tool-2", "tool-3", "tool-4">>

\* cmd_setup: create_tools.  It fails, or tool_ids is set and the Config saved
SetupTools(created) ==
    /\ cli.pc = "setup_tools"
    /\ cli' = IF created
              THEN [pc |-> "save_open", cfg |-> [cli.cfg EXCEPT !.tool_ids = SetupToolIds],
                    then |-> "idle"]
              ELSE IdleCli
    /\ UNCHANGED <<config, projects, transcripts, writes, now, srv, req, resp, resolvedFor, pending, syn>>

-----------------------------------------------------------------------------
(* cli.py: the outbound-call flow (cmd_call) and the sync flow (cmd_sync)   *)

MaxPending == 2    \* records in pending_calls.json

CallIds == {"call-1", "call-2"}

\* find_project(cwd): the first document, as glob yields them, that parses and
\* whose path is the current directory
RECURSIVE FirstAtPath(_, _)
FirstAtPath(docs, path) ==
    IF docs = <<>> THEN NoneResult
    ELSE IF Head(docs).path = path THEN Value(Head(docs))
    ELSE FirstAtPath(Tail(docs), path)

find_project(path, order) == FirstAtPath(ParsedDocs(order), path)

\* the commands that talk to the platform need what setup stored
Configured == load_config.tag = "ok" /\ Truthy(load_config.value.user_phone)

\* cmd_config with key "name": the name is set in the owner's profile, which is
\* created if there is none, and the Config is saved
ConfigName(name) ==
    /\ cli.pc = "idle"
    /\ load_config.tag # "raise"
    /\ LET cfg == load_config.value
           user_phone == cfg.user_phone
       IN  cli' = [pc |-> "save_open", then |-> "idle",
                   cfg |-> IF ~Truthy(user_phone) THEN cfg
                           ELSE IF user_phone \in DOMAIN cfg.users
                           THEN [cfg EXCEPT !.users[user_phone].name = name]
                           ELSE [cfg EXCEPT !.users =
                                   [p \in DOMAIN cfg.users \cup {user_phone} |->
                                      IF p = user_phone THEN Profile(name, None)
                                      ELSE cfg.users[p]]]]
    /\ UNCHANGED <<config, projects, transcripts, writes, now, srv, req, resp, resolvedFor,
                   pending, syn>>

\* cmd_configure_inbound: PATCH /phone-number fails (the command exits), or the
\* owner gets a profile if there is none, and only then is the Config saved
ConfigureInbound(patched) ==
    /\ cli.pc = "idle"
    /\ Configured
    /\ LET cfg == load_config.value
           user_phone == cfg.user_phone
       IN  IF patched /\ user_phone \notin DOMAIN cfg.users
           THEN cli' = [pc |-> "save_open", then |-> "idle",
                        cfg |-> [cfg EXCEPT !.users =
                                   [p \in DOMAIN cfg.users \cup {user_phone} |->
                                      IF p = user_phone THEN Profile("User", None)
                                      ELSE cfg.users[p]]]]
           ELSE cli' = cli
    /\ UNCHANGED <<config, projects, transcripts, writes, now, srv, req, resp, resolvedFor,
                   pending, syn>>

\* cmd_call in a registered directory d, up to open(project_file, "w"): the
\* context is gathered again and last_context_update taken from the clock
CallOpen(d) ==
    /\ cli.pc = "idle"
    /\ Configured
    /\ now < MaxClock
    /\ \E order \in GlobOrders :
         LET project == find_project(ProjRoot, order) IN
         /\ project.tag = "ok"
         /\ projects' = [projects EXCEPT ![project.value.name] = PartialFile]
         /\ cli' = [pc |-> "call_dump", stem |-> project.value.name,
                    doc |-> [project.value EXCEPT
                               !.context = gather_project_context(d),
                               !.last_context_update = now + 1]]
    /\ now' = now + 1
    /\ UNCHANGED <<config, transcripts, writes, srv, req, resp, resolvedFor, pending, syn>>

\* cmd_call: json.dump(project, f) and close
CallDump ==
    /\ cli.pc = "call_dump"
    /\ projects' = [projects EXCEPT ![cli.stem] = cli.doc]
    /\ cli' = [pc |-> "call_request", project |-> cli.doc.name]
    /\ UNCHANGED <<config, transcripts, writes, now, srv, req, resp, resolvedFor, pending, syn>>

CallRecord(call_id, project_name, started_at) ==
    [call_id |-> call_id, project |-> project_name, started_at |-> started_at]

\* cmd_call: POST /call.  It fails (the command exits), or the platform creates
\* the call and returns it under an id that no pending call has
CallRequest(placed, call_id) ==
    /\ cli.pc = "call_request"
    /\ IF placed
       THEN /\ Len(pending) < MaxPending
            /\ \A i \in 1..Len(pending) : pending[i].call_id # call_id
            /\ cli' = [pc |-> "call_append", project |-> cli.project, call_id |-> call_id]
       ELSE cli' = IdleCli
    /\ UNCHANGED <<config, projects, transcripts, writes, now, srv, req, resp, resolvedFor,
                   pending, syn>>

\* cmd_call: pending_calls.json is read, the record appended, and the list
\* written back (write_text of the text made before the file is opened)
CallAppend ==
    /\ cli.pc = "call_append"
    /\ pending' = Append(pending, CallRecord(cli.call_id, cli.project, now))
    /\ cli' = IdleCli
    /\ UNCHANGED <<config, projects, transcripts, writes, now, srv, req, resp, resolvedFor,
                   syn>>

\* cmd_sync, up to the loop: pending_calls.json is read; nothing to do without
\* pending records.  The command runs in a process of its own.
SyncStart ==
    /\ syn.pc = "idle"
    /\ Configured
    /\ pending # <<>>
    /\ syn' = [pc |-> "sync", pending |-> pending, todo |-> pending,
               synced |-> <<>>, still_pending |-> <<>>]
    /\ UNCHANGED <<config, projects, transcripts, writes, now, srv, req, resp, cli,
                   resolvedFor, pending>>

\* What GET /call/<id> can bring: the call ended and has a transcript; it ended
\* without one; it has any status other than ended, queued, ringing and
\* in-progress (failed, cancelled); it is queued, ringing or in progress; the
\* request raised; the platform answered with an error status
SyncOutcomes == {"transcript", "ended", "failed", "in-progress", "error", "exit"}

SyncContent(call, transcript) ==
    [project |-> call.project, started_at |-> call.started_at, transcript |-> transcript]

\* cmd_sync: one turn of the loop.  With a transcript a file is written and the
\* record goes to synced; ended without one, or failed, it goes to synced; still
\* going on, or not checked because the request raised, it goes to
\* still_pending; on an error status vapi_request exits the command
SyncCall(outcome) ==
    /\ syn.pc = "sync"
    /\ syn.todo # <<>>
    /\ LET call == Head(syn.todo) IN
       CASE outcome = "transcript" ->
              /\ writes < MaxWrites
              /\ transcripts' = WriteFile(transcripts, TranscriptFile(now, call.project),
                                          SyncContent(call, "hello"))
              /\ writes' = writes + 1
              /\ syn' = [syn EXCEPT !.todo = Tail(syn.todo),
                                    !.synced = Append(syn.synced, call)]
         [] outcome \in {"ended", "failed"} ->
              /\ syn' = [syn EXCEPT !.todo = Tail(syn.todo),
                                    !.synced = Append(syn.synced, call)]
              /\ UNCHANGED <<transcripts, writes>>
         [] outcome \in {"in-progress", "error"} ->
              /\ syn' = [syn EXCEPT !.todo = Tail(syn.todo),
                                    !.still_pending = Append(syn.still_pending, call)]
              /\ UNCHANGED <<transcripts, writes>>
         [] OTHER ->
              /\ syn' = IdleCli
              /\ UNCHANGED <<transcripts, writes>>
    /\ UNCHANGED <<config, projects, now, srv, req, resp, cli, resolvedFor, pending>>

\* cmd_sync: calls_file.write_text(json.dumps(still_pending))
SyncFinish ==
    /\ syn.pc = "sync"
    /\ syn.todo = <<>>
    /\ pending' = syn.still_pending
    /\ syn' = IdleCli
    /\ UNCHANGED <<config, projects, transcripts, writes, now, srv, req, resp, cli,
                   resolvedFor>>

-----------------------------------------------------------------------------
(* The system *)

\* a Config written before profiles existed: the owner's number, no users entry
LegacyConfig == ConfigDoc("+1", <<>>, SetupToolIds)

\* a Config whose profile names a project whose document has since been deleted
StaleConfig == ConfigDoc("+2", [p \in {"+2"} |-> Profile("Ann", "APP")], <<>>)

Init ==
    /\ config \in {AbsentFile, LegacyConfig, StaleConfig}
    /\ projects = [n \in ProjNames |-> AbsentFile]
    /\ transcripts = <<>>
    /\ writes = 0
    /\ now = 0
    /\ srv = IdleServer
    /\ req = NoRequest
    /\ resp = Pending
    /\ cli = IdleCli
    /\ resolvedFor = NoResolutions
    /\ pending = <<>>
    /\ syn = IdleCli

Cli ==
    \/ \E n \in ProjNames : RegisterOpen(n, DirFactsOf(ProjRoot))
    \/ RegisterDump
    \/ \E p \in Phones, u \in UserNames : SetupLoad(p, u)
    \/ CliSaveOpen
    \/ CliSaveDump
    \/ \E o \in {"exit", "number", "none"} : SetupVerify(o)
    \/ \E b \in BOOLEAN : SetupTools(b)

Inbound ==
    \/ \E c \in Callers : PostAssistantRequest(c)
    \/ AssistantRequestSave

Other ==
    \E b \in BodyKinds, t \in OtherTypes : (b # "object" => t = None) /\ PostOther(b, t)

\* Inbound calls against the CLI: the Caller Resolver
Next == Inbound \/ Other \/ Cli

Spec == Init /\ [][Next]_vars

\* Inbound calls of the owner and the end-of-call reports that follow them:
\* the Call-Completion Persister.  Setup stops at the API check here.
InboundOwner ==
    \/ PostAssistantRequest("+1")
    \/ AssistantRequestSave

EndOfCallOwner ==
    \E m \in {None, "App"}, x \in Transcripts :
       PostEndOfCallReport(EndOfCallReport("call-1", "inboundPhoneCall", m, "+1", x))

CliOwner ==
    \/ \E n \in ProjNames : RegisterOpen(n, DirFactsOf(ProjRoot))
    \/ RegisterDump
    \/ SetupLoad("+1", "Ann")
    \/ CliSaveOpen
    \/ CliSaveDump
    \/ SetupVerify("exit")

NextCalls == InboundOwner \/ EndOfCallOwner \/ CliOwner

SpecCalls == Init /\ [][NextCalls]_vars

\* Tool invocations against a Project Store that the register command writes.
\* Single invocations range over every tool and argument; batches over a few.
NameArgs(project_name) == ObjectArgs([project_name |-> project_name])

SingleCalls ==
    {ToolCall("id-1", "list_projects", a) : a \in {ObjectArgs(<<>>), OtherArgs}}
    \cup {ToolCall("id-1", "get_project_context", NameArgs(n)) : n \in LookupNames}
    \cup {ToolCall("id-1", "get_project_context", a) :
            a \in {ObjectArgs(<<>>), StringArgs(TRUE, NameArgs("App")),
                   StringArgs(FALSE, OtherArgs), StringArgs(TRUE, OtherArgs), OtherArgs}}
    \cup {ToolCall("id-1", "read_file", ObjectArgs([project_name |-> n, file_path |-> f])) :
            n \in {"App", "nope"}, f \in FilePaths}
    \cup {ToolCall("id-1", "read_file", NameArgs("App"))}
    \cup {ToolCall("id-1", "search_code", ObjectArgs([project_name |-> n, query |-> q])) :
            n \in {"App", "nope"}, q \in Queries}
    \cup {ToolCall("id-1", "bogus", ObjectArgs(<<>>))}

BatchCalls ==
    { ToolCall("id-1", "list_projects", ObjectArgs(<<>>)),
      ToolCall("id-2", "get_project_context", NameArgs("App")),
      ToolCall("id-3", "get_project_context", NameArgs("nope")),
      ToolCall("id-1", "get_project_context", StringArgs(TRUE, OtherArgs)),
      ToolCall("id-2", "bogus", ObjectArgs(<<>>)) }

Tools ==
    \/ \E c \in SingleCalls, t \in BOOLEAN : PostToolCalls(<<c>>, t)
    \/ \E n \in 0..MaxBatch : \E b \in [1..n -> BatchCalls] : PostToolCalls(b, FALSE)

Registration ==
    \/ \E n \in ProjNames : RegisterOpen(n, DirFactsOf(ProjRoot))
    \/ RegisterDump

InitTools == Init /\ config = AbsentFile

NextTools == Tools \/ Registration

SpecTools == InitTools /\ [][NextTools]_vars

-----------------------------------------------------------------------------
(* Properties *)

\* A step of the server: every step of a CLI command moves its process.
\* After such a step req' is the request handled and resp' what was sent for it.
ServerStep == cli' = cli /\ syn' = syn /\ now' = now

\* the request was handled to its end: answered, or dropped
Answered == req.route # "none" /\ resp.body.kind # "pending"

\* C1: a tool-calls request with N >= 1 invocations is answered with exactly N
\* results, in request order, the i-th carrying the i-th invocation's id; a failing
\* invocation never keeps the others from getting their results.
C1_BatchIsolation ==
    (req.route = "tool-calls" /\ Len(req.toolCalls) >= 1) =>
        /\ resp.status = 200
        /\ resp.body.kind = "results"
        /\ Len(resp.body.results) = Len(req.toolCalls)
        /\ \A i \in 1..Len(req.toolCalls) :
              resp.body.results[i].toolCallId = req.toolCalls[i].id

AccessDenied == [error |-> <<"Access denied: file outside project directory">>]

\* the file_path a read_file invocation carries ("" when absent)
FilePathOf(call) ==
    IF "file_path" \in DOMAIN call.args.obj THEN call.args.obj.file_path ELSE EmptyPath

\* an answered read_file invocation on a registered project, whose path resolves
\* outside the project root
EscapingRead(call) ==
    /\ call.name = "read_file"
    /\ call.args.form = "object"
    /\ "project_name" \in DOMAIN call.args.obj
    /\ Parses(ProjectFile(call.args.obj.project_name))
    /\ LET root == ProjectFile(call.args.obj.project_name).path IN
       ~IsWithin(Resolve(JoinPath(root, FilePathOf(call))), Resolve(root))

\* C2: read_file of a path that resolves outside the project root, by path
\* components, returns the access-denied error and never file content, also for
\* a sibling directory whose name extends the root's name.
C2_ReadFileConfined ==
    [][(ServerStep /\ req'.route = "tool-calls" /\ resp'.status = 200) =>
          \A i \in 1..Len(req'.toolCalls) :
             EscapingRead(req'.toolCalls[i]) =>
                resp'.body.results[i].result = JsonDumps(AccessDenied)]_vars

\* C3: a POST whose body is a well-formed JSON object is answered 200 with a JSON
\* body whatever the event and the documents on disk; an unrouted event gets
\* {status: ok}.
C3_AlwaysAnswered200 ==
    (Answered /\ (req.route = "other" => req.body = "object")) =>
        /\ resp.status = 200
        /\ req.route = "other" => resp.body = [kind |-> "status", status |-> "ok"]

\* C4: a malformed body (invalid JSON, or bytes that are not valid text) is
\* answered 400 with a structured error body.
C4_MalformedAnswered400 ==
    (req.route = "other" /\ req.body \in {"bytes", "text"}) =>
        resp = Response(400, [kind |-> "error", error |-> "Invalid JSON"])

\* C5: the Tool Executor never raises: for every tool, every JSON-object argument
\* and every state of the Project Store the outcome is a result or an {error}.
C5_ExecutorNeverRaises ==
    \A call \in SingleCalls : \A order \in GlobOrders : \A timedOut \in BOOLEAN :
       ParseArguments(call.args).form = "object" =>
          ExecuteTool(call, order, timedOut).tag = "ok"

\* the first step of an assistant-request, and the step that answers it
AssistantRequestStep == ServerStep /\ srv.pc = "idle" /\ req'.route = "assistant-request"
AssistantAnswerStep == srv.pc = "ar_save" /\ srv'.pc = "idle"

\* the project the full assistant variant was built for
AnsweredProject(r) == r.body.messages[1].project
IsProjectAssistant(r) ==
    r.status = 200 /\ r.body.kind = "assistant" /\ r.body.messages # <<>>

LastProjectRecorded(cfg, caller_phone, project_name) ==
    /\ Parses(cfg)
    /\ caller_phone \in DOMAIN cfg.users
    /\ cfg.users[caller_phone].last_project = project_name

\* C6 as claimed: whenever an assistant-request is answered with a project, the
\* caller's profile in the Config on disk has last_project = that project's name,
\* also when the profile was synthesized by the owner-number fallback.
C6_LastProjectAlwaysRecorded ==
    [][AssistantAnswerStep =>
          LastProjectRecorded(config', srv.caller, AnsweredProject(resp'))]_vars

\* C6 amended: when an assistant-request is answered with a project and the
\* caller's number is a key of the users map the handler loaded, the Config on
\* disk has that profile's last_project = the project's name; for a profile
\* synthesized by the owner-number fallback the Config is not written.
C6_LastProjectRecordedForKnownNumber ==
    [][AssistantAnswerStep =>
          /\ IsProjectAssistant(resp')
          /\ IF srv.caller \in DOMAIN srv.cfg.users
             THEN LastProjectRecorded(config', srv.caller, AnsweredProject(resp'))
             ELSE config' = config]_vars

C6_Witness ==
    /\ req.route = "assistant-request"
    /\ IsProjectAssistant(resp)
    /\ LastProjectRecorded(config, req.caller, AnsweredProject(resp))
    /\ resolvedFor[req.caller].recorded

\* an inbound end-of-call-report without project metadata and with a transcript
InboundReportStep ==
    /\ ServerStep
    /\ req'.route = "end-of-call-report"
    /\ req'.call_type = "inboundPhoneCall"
    /\ ~Truthy(req'.meta_project)
    /\ req'.transcript # ""

PersistedUnder(r, dir, project_name) ==
    /\ r.status = 200
    /\ "transcript_path" \in DOMAIN r.body
    /\ r.body.transcript_path[2] = project_name
    /\ r.body.transcript_path \in DOMAIN dir
    /\ dir[r.body.transcript_path].project = project_name

\* C7 as claimed: after an assistant-request from C resolved to P (and no CLI
\* command wrote the Config since), an inbound end-of-call-report from C without
\* metadata and with a transcript is persisted under P.
C7_ReportFiledUnderResolved ==
    [][(InboundReportStep /\ resolvedFor[req'.caller].project # None) =>
          PersistedUnder(resp', transcripts', resolvedFor[req'.caller].project)]_vars

\* C7 amended: the same, for a caller whose number was a key of the users map
\* when the assistant-request was handled (so that the handler recorded P).
C7_ReportFiledUnderRecorded ==
    [][(InboundReportStep /\ resolvedFor[req'.caller].recorded) =>
          PersistedUnder(resp', transcripts', resolvedFor[req'.caller].project)]_vars

\* the report was filed under the recorded project although another project is
\* the most recently updated one
C7_Witness ==
    /\ req.route = "end-of-call-report"
    /\ req.call_type = "inboundPhoneCall"
    /\ ~Truthy(req.meta_project)
    /\ resolvedFor[req.caller].recorded
    /\ PersistedUnder(resp, transcripts, resolvedFor[req.caller].project)
    /\ \E n \in ProjNames :
          /\ Parses(projects[n])
          /\ projects[n].name # resolvedFor[req.caller].project
          /\ \A m \in ProjNames :
                Parses(projects[m]) =>
                   projects[m].last_context_update <= projects[n].last_context_update

\* the Config document as a request finds it on disk ({} when there is none)
ConfigOnDisk == IF Exists(config) THEN config ELSE EmptyConfig
ConfigReadable == ~Exists(config) \/ Parses(config)

ParsedProjects == {projects[n] : n \in {m \in ProjNames : Parses(projects[m])}}

MostRecentlyUpdated(doc) ==
    /\ doc \in ParsedProjects
    /\ \A other \in ParsedProjects :
          other.last_context_update <= doc.last_context_update

\* C8: a caller whose number is neither a key of the users map nor the owner
\* number gets the unknown-caller variant: no system prompt, no tool identifiers,
\* no project loaded or selected, and the Config document is left unchanged.
C8_UnknownCaller ==
    [][(/\ AssistantRequestStep
        /\ ConfigReadable
        /\ req'.caller \notin DOMAIN ConfigOnDisk.users
        /\ req'.caller # ConfigOnDisk.user_phone) =>
          /\ resp'.status = 200
          /\ resp'.body.kind = "assistant"
          /\ resp'.body.firstMessage = <<"I don't recognize this number">>
          /\ resp'.body.messages = <<>>
          /\ resp'.body.toolIds = <<>>
          /\ srv'.pc = "idle"
          /\ config' = config
          /\ resolvedFor' = resolvedFor]_vars

\* an unknown caller was answered while tools were configured and a project registered
C8_Witness ==
    /\ req.route = "assistant-request"
    /\ resp = Response(200, UnknownCallerAssistant)
    /\ Parses(config)
    /\ req.caller \notin DOMAIN config.users
    /\ req.caller # config.user_phone
    /\ config.tool_ids # <<>>
    /\ ParsedProjects # {}

\* C9: with no users entry for the caller but user_phone equal to the caller's
\* number, the profile is synthesized (name "there", no last project), the project
\* chosen is a most-recently-updated project of the store, and the full variant is
\* returned for it when a project document exists.
C9_OwnerFallback ==
    [][/\ (/\ AssistantRequestStep
           /\ ConfigReadable
           /\ req'.caller \notin DOMAIN ConfigOnDisk.users
           /\ req'.caller = ConfigOnDisk.user_phone) =>
             IF ParsedProjects # {}
             THEN /\ srv'.pc = "ar_save"
                  /\ srv'.user.name = "there"
                  /\ srv'.user.last_project = None
                  /\ MostRecentlyUpdated(srv'.project)
             ELSE resp' = Response(200, NoProjectAssistant("there"))
       /\ AssistantAnswerStep =>
             /\ IsProjectAssistant(resp')
             /\ AnsweredProject(resp') = srv.project.name
             /\ resp'.body.firstMessage = <<"loaded up", srv.user.name, srv.project.name>>
             /\ resp'.body.toolIds = srv.cfg.tool_ids]_vars

\* the owner, without a users entry, was answered with the newer of two projects
C9_Witness ==
    /\ req.route = "assistant-request"
    /\ IsProjectAssistant(resp)
    /\ resp.body.firstMessage[2] = "there"
    /\ Parses(config)
    /\ req.caller \notin DOMAIN config.users
    /\ req.caller = config.user_phone
    /\ Cardinality(ParsedProjects) = 2
    /\ \E doc \in ParsedProjects :
          MostRecentlyUpdated(doc) /\ doc.name = AnsweredProject(resp)

\* the profile the request resolves to, for a caller that is recognized
Recognized(caller_phone) ==
    \/ caller_phone \in DOMAIN ConfigOnDisk.users
    \/ caller_phone = ConfigOnDisk.user_phone
LastProjectOf(caller_phone) ==
    IF caller_phone \in DOMAIN ConfigOnDisk.users
    THEN ConfigOnDisk.users[caller_phone].last_project ELSE None
NameOf(caller_phone) ==
    IF caller_phone \in DOMAIN ConfigOnDisk.users
    THEN ConfigOnDisk.users[caller_phone].name ELSE "there"

\* the documents a name designates: the one of that very name if it exists,
\* otherwise those whose name equals it ignoring case
Designated(name) ==
    IF Exists(ProjectFile(name)) THEN {ProjectFile(name)}
    ELSE {projects[n] : n \in {m \in ExistingStems : Lower(m) = Lower(name)}}

\* C10: for a resolved profile, a last_project that names a loadable project is
\* chosen whatever the timestamps; only when last_project is unset or names no
\* existing project is a most-recently-updated project chosen; with no project at
\* all the known-caller-no-project variant is returned and the Config not written.
C10_ProjectChain ==
    [][(AssistantRequestStep /\ ConfigReadable /\ Recognized(req'.caller)) =>
          LET last == LastProjectOf(req'.caller)
              named == IF Truthy(last) THEN Designated(last) ELSE {}
          IN  /\ (named # {} /\ \A d \in named : Parses(d)) =>
                    srv'.pc = "ar_save" /\ srv'.project \in named
              /\ (named = {} /\ ParsedProjects # {}) =>
                    srv'.pc = "ar_save" /\ MostRecentlyUpdated(srv'.project)
              /\ (named = {} /\ ParsedProjects = {}) =>
                    /\ srv'.pc = "idle"
                    /\ resp' = Response(200, NoProjectAssistant(NameOf(req'.caller)))
                    /\ resp'.body.messages = <<>>
                    /\ config' = config]_vars

\* a caller was answered with the project its last_project names although the
\* other project is more recent
C10_Witness ==
    /\ req.route = "assistant-request"
    /\ IsProjectAssistant(resp)
    /\ Parses(config)
    /\ req.caller \in DOMAIN config.users
    /\ config.users[req.caller].last_project = AnsweredProject(resp)
    /\ \E doc \in ParsedProjects :
          /\ doc.name # AnsweredProject(resp)
          /\ MostRecentlyUpdated(doc)
          /\ \E mine \in ParsedProjects :
                /\ mine.name = AnsweredProject(resp)
                /\ mine.last_context_update < doc.last_context_update

-----------------------------------------------------------------------------
(* The most-recently-updated fallback (get_most_recent_project)             *)

\* last_context_update is kept as its rank under string order: t >= 1 is the
\* isoformat() text of clock value t, and 0 the empty string that
\* data.get("last_context_update", "") reads from a document without the field.
NoStamp == 0

\* a document registered before last_context_update was written
LegacyProject(name) ==
    ProjectDoc(name, ProjRoot, NoStamp, gather_project_context(DirFactsOf(ProjRoot)))

\* The owner calls in while projects are registered and refreshed; the store may
\* start with documents that carry no last_context_update.
InitRecent ==
    /\ config = LegacyConfig
    /\ \E old \in SUBSET ProjNames :
          projects = [n \in ProjNames |->
                        IF n \in old THEN LegacyProject(n) ELSE AbsentFile]
    /\ transcripts = <<>>
    /\ writes = 0
    /\ now = 0
    /\ srv = IdleServer
    /\ req = NoRequest
    /\ resp = Pending
    /\ cli = IdleCli
    /\ resolvedFor = NoResolutions
    /\ pending = <<>>
    /\ syn = IdleCli
NextRecent == InboundOwner \/ Registration
SpecRecent ==
    /\ InitRecent
    /\ [][NextRecent]_vars

\* C11: the most-recently-updated fallback returns, among the project documents
\* that parse, one whose last_context_update is greatest (a document without the
\* field counting lowest); documents that do not parse are skipped, never
\* selected, and never make the fallback fail.
C11_MostRecentAmongParsed ==
    \A order \in GlobOrders :
       LET recent == get_most_recent_project(order) IN
       IF ParsedProjects = {} THEN recent = NoneResult
       ELSE /\ recent.tag = "ok"
            /\ recent.value \in ParsedProjects
            /\ \A doc \in ParsedProjects :
                  doc.last_context_update <= recent.value.last_context_update

\* the owner was answered with the later-stamped of two documents that parse
C11_Witness ==
    /\ req.route = "assistant-request"
    /\ IsProjectAssistant(resp)
    /\ srv.pc = "idle"
    /\ Cardinality(ParsedProjects) = 2
    /\ \E old \in ParsedProjects :
          /\ old.name # AnsweredProject(resp)
          /\ old.last_context_update < projects[AnsweredProject(resp)].last_context_update

-----------------------------------------------------------------------------
(* Ended calls: the Call-Completion Persister and the sync flow              *)

\* the Config once cmd_setup has run to its end
ConfiguredConfig ==
    ConfigDoc("+1", [p \in {"+1"} |-> Profile("Ann", None)], SetupToolIds)

\* the end-of-call-reports the platform sends: for a call that was placed with
\* its project as metadata, for one placed without, for a call of the owner
Reports ==
    { EndOfCallReport("call-1", "outboundPhoneCall", "App", "+1", "hello"),
      EndOfCallReport("call-1", "outboundPhoneCall", None, "+1", "hello"),
      EndOfCallReport("call-2", "inboundPhoneCall", None, "+1", "hello"),
      EndOfCallReport("call-2", "inboundPhoneCall", None, "+1", "") }

\* metadata.project is what cmd_call puts on the calls it creates: a report
\* carries it only for a call that has a pending record, with that project
EndOfCall ==
    \E r \in Reports :
       /\ Truthy(r.meta_project) =>
             \E i \in 1..Len(pending) :
                pending[i].call_id = r.call_id /\ pending[i].project = r.meta_project
       /\ PostEndOfCallReport(r)

OutboundCall ==
    \/ CallOpen(DirFactsOf(ProjRoot))
    \/ CallDump
    \/ \E placed \in BOOLEAN, id \in CallIds : CallRequest(placed, id)
    \/ CallAppend

Sync ==
    \/ SyncStart
    \/ \E o \in SyncOutcomes : SyncCall(o)
    \/ SyncFinish

InitReports ==
    /\ config = ConfiguredConfig
    /\ projects = [n \in ProjNames |-> AbsentFile]
    /\ transcripts = <<>>
    /\ writes = 0
    /\ now = 0
    /\ srv = IdleServer
    /\ req = NoRequest
    /\ resp = Pending
    /\ cli = IdleCli
    /\ resolvedFor = NoResolutions
    /\ pending = <<>>
    /\ syn = IdleCli
NextReports == EndOfCall \/ Registration \/ OutboundCall \/ Sync
SpecReports ==
    /\ InitReports
    /\ [][NextReports]_vars

\* a step that handles an end-of-call-report to its end and answers it
ReportStep ==
    /\ ServerStep
    /\ req'.route = "end-of-call-report"
    /\ resp'.status = 200

\* the project name in the path the handler returns
FiledUnder(r) == r.body.transcript_path[2]

\* C12: the transcript's project name is, first match wins, (a) the project in
\* the call's metadata, (b) for an inbound call the calling number's
\* last_project, (c) the name of a most-recently-updated project, (d) "unknown"
\* only when none of these yields a name.
C12_ProjectNameChain ==
    [][(ReportStep /\ req'.transcript # "") =>
          LET r == req'
              name == FiledUnder(resp')
          IN  IF Truthy(r.meta_project) THEN name = r.meta_project
              ELSE IF /\ r.call_type = "inboundPhoneCall"
                      /\ r.caller \in DOMAIN ConfigOnDisk.users
                      /\ Truthy(ConfigOnDisk.users[r.caller].last_project)
              THEN name = ConfigOnDisk.users[r.caller].last_project
              ELSE IF ParsedProjects # {}
              THEN \E doc \in ParsedProjects : MostRecentlyUpdated(doc) /\ name = doc.name
              ELSE name = "unknown"]_vars

\* C13: a report without transcript writes no file and is answered "no
\* transcript"; one with a transcript adds exactly one file to the directory,
\* named <timestamp>_<project>, holding the transcript, and returns its path.
C13_OneFilePerTranscript ==
    [][ReportStep =>
          IF req'.transcript = ""
          THEN /\ transcripts' = transcripts
               /\ resp'.body = [kind |-> "status", status |-> "ok",
                                message |-> "no transcript"]
          ELSE LET f == resp'.body.transcript_path IN
               /\ f \notin DOMAIN transcripts
               /\ DOMAIN transcripts' = DOMAIN transcripts \cup {f}
               /\ f[1] = now
               /\ transcripts'[f].transcript = req'.transcript
               /\ \A g \in DOMAIN transcripts : transcripts'[g] = transcripts[g]]_vars

\* C14: a persisted transcript is never overwritten: every file written earlier
\* still exists with its content, and there are as many files as writes.
C14_TranscriptsNeverOverwritten ==
    [][/\ \A f \in DOMAIN transcripts :
             f \in DOMAIN transcripts' /\ transcripts'[f] = transcripts[f]
       /\ Cardinality(DOMAIN transcripts') = writes']_vars

\* C15: when the report of an inbound call finds its project through the
\* most-recently-updated fallback, the caller's last_project in the Config on
\* disk is set to that project's name.
C15_FallbackRecordsLastProject ==
    [][(/\ ReportStep
        /\ req'.call_type = "inboundPhoneCall"
        /\ ~Truthy(req'.meta_project)
        /\ req'.caller \in DOMAIN ConfigOnDisk.users
        /\ ~Truthy(ConfigOnDisk.users[req'.caller].last_project)
        /\ ParsedProjects # {}) =>
          \E doc \in ParsedProjects :
             /\ MostRecentlyUpdated(doc)
             /\ LastProjectRecorded(config', req'.caller, doc.name)]_vars

\* C20: handling an end-of-call-report leaves pending_calls.json as it is,
\* whatever the event; a record leaves the list only in the sync flow.
C20_ReportKeepsPendingCalls ==
    [][/\ (ServerStep /\ req'.route = "end-of-call-report") => pending' = pending
       /\ (\E i \in 1..Len(pending) : \A j \in 1..Len(pending') : pending'[j] # pending[i])
             => syn.pc = "sync"]_vars

\* the report of a call that has a pending record was persisted, and the record
\* is still there
C20_Witness ==
    /\ req.route = "end-of-call-report"
    /\ resp.status = 200
    /\ "transcript_path" \in DOMAIN resp.body
    /\ \E i \in 1..Len(pending) :
          pending[i].call_id = req.call_id /\ pending[i].project = FiledUnder(resp)

-----------------------------------------------------------------------------
(* Lookup of a project by name (load_project behind get_project_context)     *)

\* the projects that are registered: their document exists and parses
Registered == {n \in ProjNames : Parses(projects[n])}

\* no other document's name equals this one ignoring case
AloneIgnoringCase(name) ==
    \A other \in ExistingStems : Lower(other) = Lower(name) => other = name

\* C16 as claimed: in any Project Store, also one holding two projects whose
\* names differ only in letter case, get_project_context(P.name) and
\* get_project_context(lowercase(P.name)) return identical results.
C16_SameContextIgnoringCase ==
    \A n \in Registered : \A order \in GlobOrders :
       get_project_context(projects[n].name, order)
          = get_project_context(Lower(projects[n].name), order)

\* C16 amended: the two lookups return the same result, the context of P, for
\* every registered project P whose name no other document shares ignoring case.
C16_SameContextWhenAlone ==
    \A n \in Registered : \A order \in GlobOrders :
       AloneIgnoringCase(n) =>
          /\ get_project_context(projects[n].name, order)
                = get_project_context(Lower(projects[n].name), order)
          /\ get_project_context(Lower(projects[n].name), order).tag = "ok"
          /\ get_project_context(Lower(projects[n].name), order).value.name = n

\* the context of App was returned for the name "app", App being the only project
C16_Witness ==
    /\ req.route = "tool-calls"
    /\ Len(req.toolCalls) = 1
    /\ req.toolCalls[1].name = "get_project_context"
    /\ req.toolCalls[1].args = NameArgs("app")
    /\ Registered = {"App"}
    /\ ExistingStems = {"App"}
    /\ resp.status = 200
    /\ \A order \in GlobOrders :
          resp.body.results[1].result = JsonDumps(get_project_context("App", order).value)

-----------------------------------------------------------------------------
(* search_code                                                               *)

NoMatches(query) == Value([query |-> query, matches |-> <<>>, message |-> "No matches found"])

\* C17: search_code(P, "") on a registered project returns the no-matches
\* indicator (empty matches and "No matches found"), and so does every search
\* that finds nothing.
C17_EmptyQueryFindsNothing ==
    \A n \in Registered : \A order \in GlobOrders : \A query \in Queries :
       (query = "" \/ GrepFiles(query, FilesUnder(projects[n].path)) = <<>>) =>
          search_code(n, query, order, FALSE) = NoMatches(query)

-----------------------------------------------------------------------------
(* The Config is read from disk by every request                             *)

\* C18: the server keeps no Config between requests: an assistant-request and an
\* inbound end-of-call-report decide from the Config document as it is on disk
\* when the request is handled (users map, owner number, tool identifiers), so
\* a CLI edit completed before the request starts shows in the response.
C18_ConfigReadFresh ==
    [][/\ (AssistantRequestStep /\ ConfigReadable) =>
             IF Recognized(req'.caller)
             THEN /\ resp' # Response(200, UnknownCallerAssistant)
                  /\ srv'.pc = "ar_save" =>
                        /\ srv'.cfg = ConfigOnDisk
                        /\ srv'.user.name = NameOf(req'.caller)
                        /\ srv'.user.last_project = LastProjectOf(req'.caller)
                  /\ resp'.status = 200 => resp' = Response(200, NoProjectAssistant(NameOf(req'.caller)))
             ELSE resp' = Response(200, UnknownCallerAssistant)
       /\ AssistantAnswerStep =>
             /\ resp'.body.toolIds = srv.cfg.tool_ids
             /\ resp'.body.firstMessage[2] = srv.user.name
       /\ (/\ InboundReportStep
           /\ ConfigReadable
           /\ req'.caller \in DOMAIN ConfigOnDisk.users
           /\ Truthy(ConfigOnDisk.users[req'.caller].last_project)) =>
             /\ resp'.status = 200
             /\ FiledUnder(resp') = ConfigOnDisk.users[req'.caller].last_project]_vars

\* the owner, whom no Config named at the start, is greeted by the name that
\* setup has stored since
C18_Witness ==
    /\ req.route = "assistant-request"
    /\ req.caller = "+1"
    /\ IsProjectAssistant(resp)
    /\ resp.body.firstMessage[2] = "Ann"
    /\ Parses(config)
    /\ "+1" \in DOMAIN config.users
    /\ config.users["+1"].name = "Ann"

-----------------------------------------------------------------------------
(* Unlocked read-modify-write of the Config                                  *)

\* C19: a Config update is a whole-document write of what the writer loaded plus
\* its own change: when an assistant-request and a CLI command both load the
\* Config before either saves, the Config is afterwards exactly the document
\* saved last, and the earlier writer's change is not in it.
C19_LastWriterWins ==
    [][/\ (AssistantAnswerStep /\ srv.caller \in DOMAIN srv.cfg.users) =>
             config' = [srv.cfg EXCEPT !.users[srv.caller].last_project = srv.project.name]
       /\ (cli.pc = "save_dump" /\ cli'.pc # "save_dump") => config' = cli.cfg]_vars

\* setup saved a profile for a new number after the handler had loaded the
\* Config; the handler then saved its copy, and the new profile is gone
C19_Witness ==
    /\ cli.pc = "setup_verify"
    /\ srv.pc = "idle"
    /\ req.route = "assistant-request"
    /\ IsProjectAssistant(resp)
    /\ LastProjectRecorded(config, req.caller, AnsweredProject(resp))
    /\ \E phone \in DOMAIN cli.cfg.users : phone \notin DOMAIN config.users

-----------------------------------------------------------------------------
(* Outbound calls: register, call and sync on a machine that is set up       *)

\* The project directories the commands are run in: what the Snapshot builder
\* can find there (a long README, a package.json with or without description,
\* todo files of either kind, many files, no git)
DirFacts ==
    LET base == DirFactsOf(ProjRoot) IN
    { base,
      [base EXCEPT !.readme = 1500],
      [base EXCEPT !.readme = -1, !.pkg = "ok", !.pkgDesc = 250],
      [base EXCEPT !.pkg = "ok", !.pkgDesc = 250],
      [base EXCEPT !.readme = -1, !.pkg = "bad"],
      [base EXCEPT !.todoFile = "md", !.todoCount = 12],
      [base EXCEPT !.todoFile = "json", !.todoCount = 12],
      [base EXCEPT !.todoFile = "json", !.todoIsList = FALSE, !.todoCount = 12],
      [base EXCEPT !.found = 25, !.commits = 5],
      [base EXCEPT !.git = FALSE, !.commits = 0] }

\* setup has run and App is registered
InitOutbound ==
    /\ config = ConfiguredConfig
    /\ projects = [n \in ProjNames |-> IF n = "App" THEN LegacyProject(n) ELSE AbsentFile]
    /\ transcripts = <<>>
    /\ writes = 0
    /\ now = 0
    /\ srv = IdleServer
    /\ req = NoRequest
    /\ resp = Pending
    /\ cli = IdleCli
    /\ resolvedFor = NoResolutions
    /\ pending = <<>>
    /\ syn = IdleCli

\* The call command (and register) in one terminal, the sync command in another
SpecOutbound ==
    /\ InitOutbound
    /\ [][\/ \E d \in DirFacts : RegisterOpen("App", d)
          \/ RegisterDump
          \/ \E d \in DirFacts : CallOpen(d)
          \/ CallDump
          \/ \E placed \in BOOLEAN, id \in CallIds : CallRequest(placed, id)
          \/ CallAppend
          \/ Sync]_vars

-----------------------------------------------------------------------------
(* pending_calls.json: the call command appends, the sync command rewrites   *)

\* C21: a Pending Call Record is appended exactly when an outbound call has been
\* created, and a sync run removes a record only once its call reached a final
\* state: after the run every record of the list whose call is still going on,
\* or could not be checked, is still in the list, in its original order.
C21_PendingRecordLifecycle ==
    [][/\ (cli.pc = "call_append" /\ cli'.pc # "call_append") =>
             pending' = Append(pending, CallRecord(cli.call_id, cli.project, now))
       /\ Len(pending') > Len(pending) => cli.pc = "call_append"
       /\ (pending' # pending /\ cli.pc # "call_append") => (syn.pc = "sync" /\ syn'.pc = "idle")
       /\ (syn.pc = "sync" /\ syn.todo = <<>> /\ syn'.pc = "idle") =>
             pending' = SelectSeq(pending, LAMBDA call :
                                     \A j \in 1..Len(syn.synced) : syn.synced[j] # call)]_vars

-----------------------------------------------------------------------------
(* Tool invocations only read                                                *)

\* C22: handling a tool-calls event leaves the Config, the Project Store, the
\* transcripts and the pending-call list unchanged; so get_project_context, asked
\* again for the same name after the event, returns the result the event has
\* just returned, and two equal invocations of one event return equal results.
C22_ToolsReadOnly ==
    [][(ServerStep /\ req'.route = "tool-calls") =>
          /\ config' = config
          /\ projects' = projects
          /\ transcripts' = transcripts
          /\ pending' = pending
          /\ resp'.status = 200 =>
                \A i, j \in 1..Len(req'.toolCalls) :
                   req'.toolCalls[j] = req'.toolCalls[i] =>
                      resp'.body.results[j].result = resp'.body.results[i].result
          /\ (/\ resp'.status = 200
              /\ Len(req'.toolCalls) = 1
              /\ req'.toolCalls[1].name = "get_project_context") =>
                \E n \in LookupNames : \E order \in GlobOrders :
                   /\ n = ArgGet(ParseArguments(req'.toolCalls[1].args), "project_name", "").value
                   /\ LET again == (get_project_context(n, order))' IN
                      /\ again.tag = "ok"
                      /\ resp'.body.results[1].result = JsonDumps(again.value)]_vars

\* one request asked twice for the context of App, which is registered, and got
\* the same context twice
C22_Witness ==
    /\ req.route = "tool-calls"
    /\ Len(req.toolCalls) = 2
    /\ req.toolCalls[1] = ToolCall("id-2", "get_project_context", NameArgs("App"))
    /\ req.toolCalls[2] = req.toolCalls[1]
    /\ "App" \in Registered
    /\ resp.status = 200
    /\ resp.body.results[1].result = JsonDumps(get_project_context("App", <<"App">>).value)
    /\ resp.body.results[2].result = resp.body.results[1].result

-----------------------------------------------------------------------------
(* The Snapshot stored by register and by call                               *)

\* C23: every Snapshot stored in a project document by register or by the
\* refresh of an outbound call has a description of at most 200 characters, at
\* most 10 todos, at most 20 recent files and at most 5 recent commits, whatever
\* README, package.json and todo files the directory holds.
C23_SnapshotWithinBounds ==
    \A n \in ProjNames :
       Parses(projects[n]) =>
          /\ projects[n].context.description <= 200
          /\ projects[n].context.todos <= 10
          /\ projects[n].context.recent_files <= 20
          /\ projects[n].context.recent_commits <= 5

-----------------------------------------------------------------------------
(* One request at a time                                                     *)

\* C24: the server handles one request at a time: a request is taken only when
\* the one before has been answered (or dropped), and between the Config load
\* and the save of a request the only steps are steps of CLI commands; the step
\* that ends it answers that same request.
C24_OneRequestAtATime ==
    [][/\ (ServerStep /\ srv.pc = "idle") =>
             (req.route = "none" \/ resp.body.kind # "pending")
       /\ srv.pc = "ar_save" =>
             /\ req.route = "assistant-request"
             /\ req.caller = srv.caller
             /\ resp = Pending
             /\ req' = req
             /\ \/ /\ srv'.pc = "idle"
                   /\ resp'.body.kind # "pending"
                   /\ cli' = cli
                   /\ syn' = syn
                \/ /\ srv' = srv
                   /\ resp' = resp
                   /\ (cli' # cli \/ syn' # syn)]_vars

\* a CLI command has rewritten the Config since the handler loaded it, and the
\* handler has not saved yet
C24_Witness ==
    /\ srv.pc = "ar_save"
    /\ resp = Pending
    /\ cli.pc = "setup_verify"
    /\ Parses(config)
    /\ config # srv.cfg

-----------------------------------------------------------------------------
(* One call, two writers of its transcript                                   *)

\* C25: for an outbound call created by the call command, the end-of-call-report
\* handler and a sync run of the call's pending record never both write a
\* transcript file: sync writes none for a call whose report has been filed, and
\* the handler none for a call whose record sync has written a file for.
C25_OneTranscriptPerCall ==
    [][/\ (syn.pc = "sync" /\ syn' # syn /\ writes' = writes + 1) =>
             ~\E f \in DOMAIN transcripts :
                 transcripts[f] = TranscriptContent(
                    EndOfCallReport(Head(syn.todo).call_id, "outboundPhoneCall",
                                    Head(syn.todo).project, "+1", "hello"),
                    Head(syn.todo).project)
       /\ (ReportStep /\ writes' = writes + 1 /\ Truthy(req'.meta_project)) =>
             ~\E i \in 1..Len(pending) : \E f \in DOMAIN transcripts :
                 /\ pending[i].call_id = req'.call_id
                 /\ transcripts[f] = SyncContent(pending[i], "hello")]_vars

-----------------------------------------------------------------------------
(* Unlocked read-modify-write of pending_calls.json                          *)

\* C26: a record that the call command appends while a sync run is between
\* reading pending_calls.json and writing it back is still in the list when the
\* sync run has written it.
C26_AppendSurvivesSync ==
    [][(syn.pc = "sync" /\ syn'.pc = "idle" /\ pending' # pending) =>
          \A i \in 1..Len(pending) :
             (\A k \in 1..Len(syn.pending) : syn.pending[k] # pending[i]) =>
                \E j \in 1..Len(pending') : pending'[j] = pending[i]]_vars

-----------------------------------------------------------------------------
(* What the server writes into the Config                                    *)

\* C27: whenever the server writes a profile's last_project, the value is the
\* name of a project document that is in the Project Store at that moment and
\* under which load_project finds that same project; the number written for is
\* already a key of the users map, and no users entry is added or removed.
C27_ServerWritesLoadableProject ==
    [][(AssistantAnswerStep /\ WritesConfig(srv.cfg, srv.caller)) =>
          /\ \A order \in GlobOrders :
                load_project(srv.project.name, order) = Value(srv.project)
          /\ ConfigReadable
          /\ srv.caller \in DOMAIN ConfigOnDisk.users
          /\ DOMAIN config'.users = DOMAIN ConfigOnDisk.users]_vars

-----------------------------------------------------------------------------
(* The commands that edit a profile: setup, config name, configure-inbound   *)

SpecProfile ==
    /\ Init
    /\ [][\/ \E p \in Phones, u \in UserNames : SetupLoad(p, u)
          \/ \E o \in {"exit", "number", "none"} : SetupVerify(o)
          \/ \E b \in BOOLEAN : SetupTools(b)
          \/ \E name \in {"Ann", "Bo"} : ConfigName(name)
          \/ \E b \in BOOLEAN : ConfigureInbound(b)
          \/ CliSaveOpen
          \/ CliSaveDump]_vars

\* C28: a CLI command that edits a profile (setup, config name,
\* configure-inbound) keeps a recorded last_project: every profile that has
\* last_project = P in the Config the command rewrites has last_project = P in
\* the Config it writes.
C28_ProfileEditKeepsLastProject ==
    [][(cli.pc = "save_open" /\ cli'.pc = "save_dump" /\ Parses(config)) =>
          \A p \in DOMAIN config.users :
             Truthy(config.users[p].last_project) =>
                /\ p \in DOMAIN cli.cfg.users
                /\ cli.cfg.users[p].last_project = config.users[p].last_project]_vars

====
